---- MODULE Spec2Model ----
(***************************************************************************)
(* future-timed: the two future wrappers of the crate.                     *)
(*                                                                         *)
(*   Timed  (src/timed.rs)  accumulates idle and busy time over the polls  *)
(*                          of an inner future and hands the totals to a   *)
(*                          FnOnce callback when the inner future is Ready *)
(*   WarnIf (src/warn.rs)   measures every single poll and calls an Fn     *)
(*                          callback when the poll took >= threshold       *)
(*                                                                         *)
(* The inner future, the driver and the clock are the environment: the     *)
(* inner future answers every poll with Pending, Ready(v) or by unwinding, *)
(* the driver polls whenever it likes (also after Ready) or drops the      *)
(* wrapper, and the clock (Instant::now) never goes backwards. Callbacks    *)
(* may take time; they return normally in Spec, ExtSpec and WarnSpec, and  *)
(* the Timed callback may also unwind in UnwindSpec.                       *)
(***************************************************************************)
EXTENDS Integers, Sequences, FiniteSets

\* ------------------------------------------------------------------ bounds
MaxTime == 3         \* the clock stops advancing here
MaxPolls == 3        \* polls recorded per wrapper
MaxDur == 2          \* longest single inner poll / callback run
MaxThreshold == 1    \* largest WarnIf threshold tried

Values == {41, 42}   \* outputs of the inner future

\* ------------------------------------------------------- Option and Poll
None == <<>>
Some(x) == <<x>>

Pending == [kind |-> "Pending", val |-> 0]
Ready(v) == [kind |-> "Ready", val |-> v]
Unwound == [kind |-> "Unwound", val |-> 0]

\* what the inner future's poll can return
PollResults == {Pending} \cup {Ready(v) : v \in Values}

VARIABLES
    now,            \* the monotonic clock read by Instant::now()
    \* --- Timed<Fut, F>
    last_poll_end,  \* Option<Instant>
    timing,         \* Timing { idle, busy }
    op,             \* Option<F>, F: FnOnce(Timing)
    dropped,        \* the driver has dropped the wrapper
    log,            \* history: one record per poll of the wrapper
    delivered,      \* history: the Timing passed to each callback invocation
    events,         \* history: what the most recent poll did, in order
    \* --- WarnIf<Fut, F>
    threshold,      \* Duration, fixed at construction
    wdropped,       \* the driver has dropped the wrapper
    wlog,           \* history: one record per poll of the wrapper
    warned          \* history: [poll, arg] of each callback invocation

vars == <<now, last_poll_end, timing, op, dropped, log, delivered, events,
          threshold, wdropped, wlog, warned>>

\* ------------------------------------------------------------------ Timed
\* (variant) construction time kept as if it were the end of a poll
TimedNew_StaleEnd ==
    [last_poll_end |-> Some(0),
     timing |-> [idle |-> 0, busy |-> 0],
     op |-> Some("f")]

\* Timed::new
TimedNew ==
    [last_poll_end |-> None,
     timing |-> [idle |-> 0, busy |-> 0],
     op |-> Some("f")]

\* the free constructor: pub fn timed(fut, f) { Timed::new(fut, f) }
timed == TimedNew

\* Timed::new of lib.rs, the constructor the extension trait reaches
LibTimedNew ==
    [last_poll_end |-> None,
     timing |-> [idle |-> 0, busy |-> 0],
     op |-> Some("f")]

\* (variant) the moment of attaching is kept as the end of a poll
TimedFutureExt_timed_Started ==
    [LibTimedNew EXCEPT !.last_poll_end = Some(0)]

\* the fluent constructor: fn timed(self, f) { Timed::new(self, f) }
TimedFutureExt_timed == LibTimedNew

\* (variant) with no previous poll, the time since the clock's origin is idle
AddIdle_CountsFromZero(this, start) ==
    IF this.last_poll_end # None
    THEN [this EXCEPT !.timing.idle = @ + (start - this.last_poll_end[1]),
                      !.last_poll_end = None]
    ELSE [this EXCEPT !.timing.idle = @ + start]

\* (variant) the operands of the subtraction are swapped
AddIdle_Backwards(this, start) ==
    IF this.last_poll_end # None
    THEN [this EXCEPT !.timing.idle = @ + (this.last_poll_end[1] - start),
                      !.last_poll_end = None]
    ELSE this

\* if let Some(last_poll_end) = this.last_poll_end.take() { idle += start - last_poll_end }
AddIdle(this, start) ==
    IF this.last_poll_end # None
    THEN [this EXCEPT !.timing.idle = @ + (start - this.last_poll_end[1]),
                      !.last_poll_end = None]
    ELSE this

\* (variant) busy = end - start instead of busy += end - start
AddBusy_Overwrite(this, start, end) ==
    [this EXCEPT !.timing.busy = end - start,
                 !.last_poll_end = Some(end)]

\* (variant) the poll's start is stored as the last poll's end
AddBusy_StoresStart(this, start, end) ==
    [this EXCEPT !.timing.busy = @ + (end - start),
                 !.last_poll_end = Some(start)]

\* this.timing.busy += end - start; *this.last_poll_end = Some(end)
AddBusy(this, start, end) ==
    [this EXCEPT !.timing.busy = @ + (end - start),
                 !.last_poll_end = Some(end)]

\* (variant) the callback is also taken and called when the inner future is Pending
Finish_CallsOnPending(this, result) ==
    IF this.op # None
    THEN [this |-> [this EXCEPT !.op = None],
          calls |-> <<this.timing>>,
          ret |-> result]
    ELSE [this |-> this, calls |-> <<>>, ret |-> result]

\* (variant) the callback is called through a reference and stays in its slot
Finish_NoTake(this, result) ==
    IF result.kind = "Pending"
    THEN [this |-> this, calls |-> <<>>, ret |-> Pending]
    ELSE IF this.op # None
         THEN [this |-> this, calls |-> <<this.timing>>, ret |-> Ready(result.val)]
         ELSE [this |-> this, calls |-> <<>>, ret |-> Ready(result.val)]

\* (variant) the callback is taken out of its slot before the match on the result
Finish_TakesFirst(this, result) ==
    IF result.kind = "Pending"
    THEN [this |-> [this EXCEPT !.op = None], calls |-> <<>>, ret |-> Pending]
    ELSE IF this.op # None
         THEN [this |-> [this EXCEPT !.op = None],
               calls |-> <<this.timing>>,
               ret |-> Ready(result.val)]
         ELSE [this |-> this, calls |-> <<>>, ret |-> Ready(result.val)]

\* (variant) the output is lost once the callback has been consumed
Finish_DropsOutput(this, result) ==
    IF result.kind = "Pending"
    THEN [this |-> this, calls |-> <<>>, ret |-> Pending]
    ELSE IF this.op # None
         THEN [this |-> [this EXCEPT !.op = None],
               calls |-> <<this.timing>>,
               ret |-> Ready(result.val)]
         ELSE [this |-> this, calls |-> <<>>, ret |-> Pending]

\* match result { Pending => Pending, Ready(output) => { take op, call it; Ready(output) } }
\* calls: the arguments of the callback invocations made, in order
Finish(this, result) ==
    IF result.kind = "Pending"
    THEN [this |-> this, calls |-> <<>>, ret |-> Pending]
    ELSE IF this.op # None
         THEN [this |-> [this EXCEPT !.op = None],
               calls |-> <<this.timing>>,
               ret |-> Ready(result.val)]
         ELSE [this |-> this, calls |-> <<>>, ret |-> Ready(result.val)]

\* (variant) the match on the result runs before the accumulators are updated
PollBody_CallbackFirst(this, start, end, result) ==
    LET f == Finish(this, result)
    IN [f EXCEPT !.this = AddBusy(AddIdle(f.this, start), start, end)]

\* the body of Timed::poll after the inner poll has returned `result`
PollBody(this, start, end, result) ==
    Finish(AddBusy(AddIdle(this, start), start, end), result)

\* (variant) the callback is called in place and the slot emptied after it returns
FinishUnwinds_CallBeforeTake(this, result) ==
    [this |-> this, calls |-> <<this.timing>>, ret |-> Unwound]

\* if let Some(op) = this.op.take() { op(*this.timing) } where op unwinds:
\* the slot was emptied by take() before the call, nothing is returned
FinishUnwinds(this, result) ==
    [this |-> [this EXCEPT !.op = None],
     calls |-> <<this.timing>>,
     ret |-> Unwound]

\* the body of Timed::poll up to the callback that unwinds
PollBodyUnwinds(this, start, end, result) ==
    FinishUnwinds(AddBusy(AddIdle(this, start), start, end), result)

\* the steps of one poll in program order
PollEvents(this, result) ==
    <<"start", "inner", "end">>
    \o (IF this.last_poll_end # None THEN <<"idle">> ELSE <<>>)
    \o <<"busy", "last_poll_end">>
    \o (IF result.kind = "Pending"
        THEN <<"return_pending">>
        ELSE (IF this.op # None THEN <<"take", "callback">> ELSE <<>>)
             \o <<"return_ready">>)

This == [last_poll_end |-> last_poll_end, timing |-> timing, op |-> op]

TimedInit ==
    /\ last_poll_end = TimedNew.last_poll_end
    /\ timing = TimedNew.timing
    /\ op = TimedNew.op
    /\ dropped = FALSE
    /\ log = <<>>
    /\ delivered = <<>>
    /\ events = <<>>

\* One poll in which the inner future returns r after d; a callback that is
\* invoked runs for c.
TimedPoll(d, r, c) ==
    /\ ~dropped
    /\ Len(log) < MaxPolls
    /\ LET start == now
           end == now + d
           out == PollBody(This, start, end, r)
       IN /\ c > 0 => out.calls # <<>>
          /\ end + c <= MaxTime
          /\ now' = end + c
          /\ last_poll_end' = out.this.last_poll_end
          /\ timing' = out.this.timing
          /\ op' = out.this.op
          /\ delivered' = delivered \o out.calls
          /\ events' = PollEvents(This, r)
          /\ log' = Append(log, [start |-> start, end |-> end, inner |-> r,
                                 ret |-> out.ret, called |-> Len(out.calls),
                                 before |-> timing, pre |-> This])
    /\ UNCHANGED <<dropped, threshold, wdropped, wlog, warned>>

\* One poll in which the inner future returns Ready after d and the callback,
\* called with the Timing, unwinds after c.
TimedPollCallbackUnwinds(d, r, c) ==
    /\ ~dropped
    /\ Len(log) < MaxPolls
    /\ r.kind = "Ready"
    /\ op # None
    /\ LET start == now
           end == now + d
           out == PollBodyUnwinds(This, start, end, r)
       IN /\ end + c <= MaxTime
          /\ now' = end + c
          /\ last_poll_end' = out.this.last_poll_end
          /\ timing' = out.this.timing
          /\ op' = out.this.op
          /\ delivered' = delivered \o out.calls
          /\ events' = <<"start", "inner", "end">>
                        \o (IF last_poll_end # None THEN <<"idle">> ELSE <<>>)
                        \o <<"busy", "last_poll_end", "take", "callback", "unwind">>
          /\ log' = Append(log, [start |-> start, end |-> end, inner |-> r,
                                 ret |-> out.ret, called |-> Len(out.calls),
                                 before |-> timing, pre |-> This])
    /\ UNCHANGED <<dropped, threshold, wdropped, wlog, warned>>

\* (variant) a guard dropped during unwinding books the aborted poll as busy time
TimedPollUnwinds_BooksBusy(d) ==
    /\ ~dropped
    /\ Len(log) < MaxPolls
    /\ now + d <= MaxTime
    /\ now' = now + d
    /\ events' = <<"start", "inner", "unwind">>
    /\ timing' = [timing EXCEPT !.busy = @ + d]
    /\ last_poll_end' = Some(now + d)
    /\ log' = Append(log, [start |-> now, end |-> now + d, inner |-> Unwound,
                           ret |-> Unwound, called |-> 0,
                           before |-> timing, pre |-> This])
    /\ UNCHANGED <<op, delivered, dropped, threshold, wdropped, wlog, warned>>

\* (variant) the unwinding is caught, reported to the callback and turned into Pending
TimedPollUnwinds_Caught(d) ==
    /\ ~dropped
    /\ Len(log) < MaxPolls
    /\ now + d <= MaxTime
    /\ now' = now + d
    /\ events' = <<"start", "inner", "catch", "callback", "return_pending">>
    /\ op' = None
    /\ delivered' = IF op # None THEN Append(delivered, timing) ELSE delivered
    /\ log' = Append(log, [start |-> now, end |-> now + d, inner |-> Unwound,
                           ret |-> Pending, called |-> Len(op),
                           before |-> timing, pre |-> This])
    /\ UNCHANGED <<last_poll_end, timing, dropped,
                   threshold, wdropped, wlog, warned>>

\* One poll in which the inner future unwinds after d: the unwinding leaves
\* Timed::poll at the inner call, before anything is written.
TimedPollUnwinds(d) ==
    /\ ~dropped
    /\ Len(log) < MaxPolls
    /\ now + d <= MaxTime
    /\ now' = now + d
    /\ events' = <<"start", "inner", "unwind">>
    /\ log' = Append(log, [start |-> now, end |-> now + d, inner |-> Unwound,
                           ret |-> Unwound, called |-> 0,
                           before |-> timing, pre |-> This])
    /\ UNCHANGED <<last_poll_end, timing, op, delivered, dropped,
                   threshold, wdropped, wlog, warned>>

\* (variant) a Drop impl that reports the partial timing
TimedDrop_Flushes ==
    /\ ~dropped
    /\ dropped' = TRUE
    /\ delivered' = IF op # None THEN Append(delivered, timing) ELSE delivered
    /\ op' = None
    /\ UNCHANGED <<now, last_poll_end, timing, log, events,
                   threshold, wdropped, wlog, warned>>

\* The driver drops the wrapper: Timed has no Drop impl, its fields are released.
TimedDrop ==
    /\ ~dropped
    /\ dropped' = TRUE
    /\ UNCHANGED <<now, last_poll_end, timing, op, log, delivered, events,
                   threshold, wdropped, wlog, warned>>

\* Time passes between polls.
Tick ==
    /\ now < MaxTime
    /\ now' = now + 1
    /\ UNCHANGED <<last_poll_end, timing, op, dropped, log, delivered, events,
                   threshold, wdropped, wlog, warned>>

\* ----------------------------------------------------------------- WarnIf
\* WarnIf::new
WarnIfNew(t) == [threshold |-> t]

\* (variant) busy > threshold
Exceeds_Strict(busy, t) == busy > t

\* if busy >= *this.threshold
Exceeds(busy, t) == busy >= t

\* (variant) the duration is measured from the wrapper's construction
WarnPollBody_SinceConstruction(t, start, end, result) ==
    LET busy == end - 0
    IN [calls |-> IF Exceeds(busy, t) THEN <<busy>> ELSE <<>>,
        ret |-> result]

\* (variant) a poll that warned reports Pending
WarnPollBody_WarnedIsPending(t, start, end, result) ==
    LET busy == end - start
    IN [calls |-> IF Exceeds(busy, t) THEN <<busy>> ELSE <<>>,
        ret |-> IF Exceeds(busy, t) THEN Pending ELSE result]

\* the body of WarnIf::poll after the inner poll has returned `result`
\* calls: the arguments of the callback invocations made, in order
WarnPollBody(t, start, end, result) ==
    LET busy == end - start
    IN [calls |-> IF Exceeds(busy, t) THEN <<busy>> ELSE <<>>,
        ret |-> result]

WarnInit ==
    /\ \E t \in 0..MaxThreshold : threshold = WarnIfNew(t).threshold
    /\ wdropped = FALSE
    /\ wlog = <<>>
    /\ warned = <<>>

WarnPoll(d, r, c) ==
    /\ ~wdropped
    /\ Len(wlog) < MaxPolls
    /\ LET start == now
           end == now + d
           out == WarnPollBody(threshold, start, end, r)
       IN /\ c > 0 => out.calls # <<>>
          /\ end + c <= MaxTime
          /\ now' = end + c
          /\ warned' = warned \o [i \in 1..Len(out.calls) |->
                                     [poll |-> Len(wlog) + 1, arg |-> out.calls[i]]]
          /\ wlog' = Append(wlog, [start |-> start, end |-> end, inner |-> r,
                                   ret |-> out.ret])
    /\ UNCHANGED <<threshold, wdropped, last_poll_end, timing, op, dropped,
                   log, delivered, events>>

\* The inner future unwinds after d: WarnIf::poll is left at the inner call.
WarnPollUnwinds(d) ==
    /\ ~wdropped
    /\ Len(wlog) < MaxPolls
    /\ now + d <= MaxTime
    /\ now' = now + d
    /\ wlog' = Append(wlog, [start |-> now, end |-> now + d, inner |-> Unwound,
                             ret |-> Unwound])
    /\ UNCHANGED <<threshold, wdropped, warned, last_poll_end, timing, op,
                   dropped, log, delivered, events>>

WarnDrop ==
    /\ ~wdropped
    /\ wdropped' = TRUE
    /\ UNCHANGED <<now, threshold, wlog, warned, last_poll_end, timing, op,
                   dropped, log, delivered, events>>

\* --------------------------------------------------------- specifications
\* A Timed wrapper and its driver (the WarnIf wrapper is constructed and left alone).
Init ==
    /\ now = 0
    /\ TimedInit
    /\ threshold = WarnIfNew(0).threshold
    /\ wdropped = FALSE
    /\ wlog = <<>>
    /\ warned = <<>>

Next ==
    \/ Tick
    \/ \E d \in 0..MaxDur, r \in PollResults, c \in 0..MaxDur : TimedPoll(d, r, c)
    \/ \E d \in 0..MaxDur : TimedPollUnwinds(d)
    \/ TimedDrop

Spec == Init /\ [][Next]_vars

\* A Timed wrapper whose callback may unwind.
UnwindNext ==
    \/ Next
    \/ \E d \in 0..MaxDur, r \in PollResults, c \in 0..MaxDur :
          TimedPollCallbackUnwinds(d, r, c)

UnwindSpec == Init /\ [][UnwindNext]_vars

\* The same driver and inner future, with the wrapper built by fut.timed(f).
ExtInit ==
    /\ now = 0
    /\ last_poll_end = TimedFutureExt_timed.last_poll_end
    /\ timing = TimedFutureExt_timed.timing
    /\ op = TimedFutureExt_timed.op
    /\ dropped = FALSE
    /\ log = <<>>
    /\ delivered = <<>>
    /\ events = <<>>
    /\ threshold = WarnIfNew(0).threshold
    /\ wdropped = FALSE
    /\ wlog = <<>>
    /\ warned = <<>>

ExtSpec == ExtInit /\ [][Next]_vars

\* A WarnIf wrapper and its driver (the Timed wrapper is constructed and left alone).
WInit ==
    /\ now = 0
    /\ TimedInit
    /\ WarnInit

WNext ==
    \/ Tick
    \/ \E d \in 0..MaxDur, r \in PollResults, c \in 0..MaxDur : WarnPoll(d, r, c)
    \/ \E d \in 0..MaxDur : WarnPollUnwinds(d)
    \/ WarnDrop

WarnSpec == WInit /\ [][WNext]_vars

\* ------------------------------------------------- reading the histories
Polls == 1..Len(log)
WPolls == 1..Len(wlog)

\* the polls of the history l that returned to the driver (Pending or Ready)
Returned(l) == SelectSeq(l, LAMBDA e : e.ret.kind # "Unwound")

RECURSIVE SumGaps(_)
\* the time between each poll's end and the next poll's start, summed
SumGaps(s) ==
    IF Len(s) < 2 THEN 0
    ELSE SumGaps(SubSeq(s, 1, Len(s) - 1)) + (s[Len(s)].start - s[Len(s) - 1].end)

RECURSIVE SumBusy(_)
\* the polls' own durations, summed
SumBusy(s) ==
    IF Len(s) = 0 THEN 0
    ELSE SumBusy(SubSeq(s, 1, Len(s) - 1)) + (s[Len(s)].end - s[Len(s)].start)

RECURSIVE SumCalled(_)
\* the callback invocations of all polls
SumCalled(s) ==
    IF Len(s) = 0 THEN 0
    ELSE SumCalled(SubSeq(s, 1, Len(s) - 1)) + s[Len(s)].called

\* poll k is the first in which the inner future reported Ready
FirstReady(k) ==
    /\ log[k].inner.kind = "Ready"
    /\ \A j \in 1..(k - 1) : log[j].inner.kind # "Ready"

\* the returned polls up to and including poll k
ReturnedUpTo(k) == Returned(SubSeq(log, 1, k))

\* position of event e in the sequence s (0 when absent)
Pos(e, s) ==
    IF \E i \in 1..Len(s) : s[i] = e
    THEN CHOOSE i \in 1..Len(s) : s[i] = e
    ELSE 0

\* number of WarnIf callback invocations made during poll k
WarnedIn(k) == Cardinality({i \in 1..Len(warned) : warned[i].poll = k})

\* ----------------------------------------------------------------- claims

\* C1: the completion callback of Timed is invoked at most once in the
\* wrapper's lifetime; a poll invokes it (once) exactly when it is the first
\* poll in which the inner future reports Ready; no poll that returns Pending
\* invokes it; once the inner future has reported Ready the callback has been
\* invoked exactly once.
C1_CallbackExactlyOnce ==
    /\ Len(delivered) <= 1
    /\ Len(delivered) = SumCalled(log)
    /\ \A k \in Polls : log[k].called = (IF FirstReady(k) THEN 1 ELSE 0)
    /\ \A k \in Polls : log[k].ret.kind = "Pending" => log[k].called = 0
    /\ (\E k \in Polls : log[k].inner.kind = "Ready") => Len(delivered) = 1

\* a Pending poll, then the finishing poll, then one more poll that is Ready again
C1_Witness ==
    /\ Len(log) = 3
    /\ log[1].ret.kind = "Pending"
    /\ log[2].inner.kind = "Ready"
    /\ log[3].inner.kind = "Ready"
    /\ log[2].called = 1
    /\ Len(delivered) = 1

\* C2: on every poll Timed returns Pending exactly when the inner poll
\* returned Pending, and Ready(v) exactly when the inner poll returned Ready(v).
C2_TimedTransparent ==
    \A k \in Polls :
        /\ log[k].ret.kind = "Pending" <=> log[k].inner.kind = "Pending"
        /\ \A v \in Values : log[k].ret = Ready(v) <=> log[k].inner = Ready(v)

\* a Pending poll passed through, then Ready(42) passed through with the callback run
C2_Witness ==
    /\ Len(log) >= 2
    /\ log[1].inner = Pending /\ log[1].ret = Pending
    /\ log[2].inner = Ready(42) /\ log[2].ret = Ready(42)
    /\ log[2].called = 1

\* C3: the idle time delivered to the callback is the sum, over the polls up
\* to the finishing one, of (start of a poll - end of the poll before it);
\* nothing before the first poll's start is counted, and the delivered idle
\* is at least every single one of these gaps.
C3_IdleIsSumOfGaps ==
    \A k \in Polls :
        log[k].called = 1 =>
            LET polls == ReturnedUpTo(k)
            IN /\ delivered[1].idle = SumGaps(polls)
               /\ \A i \in 2..Len(polls) :
                     delivered[1].idle >= polls[i].start - polls[i - 1].end

\* three polls, none at the clock's origin, with a positive gap before each later one
C3_Witness ==
    /\ Len(log) = 3
    /\ log[3].called = 1
    /\ \A k \in Polls : log[k].ret.kind # "Unwound"
    /\ log[1].start > 0
    /\ log[2].start > log[1].end
    /\ log[3].start > log[2].end
    /\ delivered[1].idle = 2

\* C4: the busy time delivered to the callback is the sum, over the polls up
\* to the finishing one, of (end - start); it is at least the duration of
\* every single poll.
C4_BusyIsSumOfDurations ==
    \A k \in Polls :
        log[k].called = 1 =>
            LET polls == ReturnedUpTo(k)
            IN /\ delivered[1].busy = SumBusy(polls)
               /\ \A i \in 1..Len(polls) :
                     delivered[1].busy >= polls[i].end - polls[i].start

\* a first poll that computes for 2 and suspends, and a finishing poll that takes 1
C4_Witness ==
    /\ Len(log) = 2
    /\ log[1].ret = Pending /\ log[1].end - log[1].start = 2
    /\ log[2].called = 1 /\ log[2].end - log[2].start = 1
    /\ delivered[1].busy = 3

\* C5: when the inner future finishes on the wrapper's very first poll, the
\* callback receives idle = 0 and busy = that poll's end - start, which is
\* positive whenever the clock advanced between the two reads.
C5_FirstPollFinishes ==
    (Len(log) >= 1 /\ log[1].inner.kind = "Ready") =>
        /\ Len(delivered) = 1
        /\ delivered[1].idle = 0
        /\ delivered[1].busy = log[1].end - log[1].start
        /\ log[1].end > log[1].start => delivered[1].busy > 0

\* the first poll starts after the clock's origin, takes time and finishes
C5_Witness ==
    /\ Len(log) >= 1
    /\ log[1].inner.kind = "Ready"
    /\ log[1].start > 0
    /\ log[1].end > log[1].start
    /\ Len(delivered) = 1

\* C6: in every poll of WarnIf that the inner future returns from, the
\* callback is invoked once if the poll's duration end - start is >= threshold
\* and not at all otherwise, whether the inner future returned Pending or Ready.
C6_WarnIffThreshold ==
    \A k \in WPolls :
        wlog[k].inner.kind # "Unwound" =>
            WarnedIn(k) = (IF wlog[k].end - wlog[k].start >= threshold THEN 1 ELSE 0)

\* a Pending poll exactly at the threshold warns, a faster poll does not, a
\* later Ready poll warns again
C6_Witness ==
    /\ threshold = 1
    /\ Len(wlog) = 3
    /\ wlog[1].inner = Pending /\ wlog[1].end - wlog[1].start = threshold
    /\ wlog[2].end - wlog[2].start < threshold /\ wlog[2].inner = Pending
    /\ wlog[3].inner.kind = "Ready" /\ wlog[3].end - wlog[3].start >= threshold
    /\ WarnedIn(1) = 1 /\ WarnedIn(2) = 0 /\ WarnedIn(3) = 1

\* C7: on every poll WarnIf returns exactly what the inner poll returned,
\* whether or not the callback fired in that poll.
C7_WarnTransparent ==
    \A k \in WPolls : wlog[k].ret = wlog[k].inner

\* a poll that warned and returned Ready(42), after one that did not warn and returned Pending
C7_Witness ==
    /\ Len(wlog) >= 2
    /\ WarnedIn(1) = 0 /\ wlog[1].inner = Pending /\ wlog[1].ret = Pending
    /\ WarnedIn(2) = 1 /\ wlog[2].inner = Ready(42) /\ wlog[2].ret = Ready(42)

\* C8: in the poll that completes the inner future the order is: inner poll
\* returns, idle and busy take this poll's gap and duration, the callback is
\* invoked, the wrapper returns Ready. The Timing the callback receives is the
\* Timing before the poll plus this poll's gap and duration, and a wrapper
\* that has returned Ready has invoked its callback in that poll or before.
C8_CallbackAfterUpdateBeforeReady ==
    /\ \A k \in Polls :
          log[k].called = 1 =>
              LET polls == ReturnedUpTo(k)
                  n == Len(polls)
                  gap == IF n >= 2 THEN polls[n].start - polls[n - 1].end ELSE 0
              IN /\ delivered[1].idle = log[k].before.idle + gap
                 /\ delivered[1].busy = log[k].before.busy + (log[k].end - log[k].start)
    /\ \A k \in Polls :
          log[k].ret.kind = "Ready" => \E j \in 1..k : log[j].called = 1
    /\ Pos("callback", events) > 0 =>
          /\ Pos("inner", events) < Pos("busy", events)
          /\ Pos("idle", events) < Pos("callback", events)
          /\ Pos("busy", events) < Pos("callback", events)
          /\ Pos("last_poll_end", events) < Pos("callback", events)
          /\ Pos("callback", events) < Pos("return_ready", events)
          /\ Pos("return_ready", events) = Len(events)

\* the completing poll is the second, comes after a gap and takes time itself
C8_Witness ==
    /\ Len(log) = 2
    /\ log[2].called = 1
    /\ log[1].ret = Pending /\ log[1].end > log[1].start
    /\ log[2].start > log[1].end
    /\ log[2].end > log[2].start
    /\ Pos("idle", events) > 0 /\ Pos("callback", events) > 0

\* C9: a Timed wrapper dropped before any poll in which the inner future
\* reported Ready has never had its callback invoked, and never will.
C9_DroppedNeverCalls ==
    (dropped /\ \A k \in Polls : log[k].inner.kind # "Ready") => delivered = <<>>

\* dropped after two Pending polls, callback still in its slot
C9_Witness ==
    /\ dropped
    /\ Len(log) = 2
    /\ \A k \in Polls : log[k].ret = Pending
    /\ timing.busy > 0 /\ timing.idle > 0
    /\ delivered = <<>>

\* C10: a poll after the wrapper has returned Ready never invokes the
\* callback, also when the inner future reports Ready again: the number of
\* invocations stays one.
C10_NoReinvocation ==
    /\ \A k \in Polls :
          (\E j \in 1..(k - 1) : log[j].ret.kind = "Ready") => log[k].called = 0
    /\ (\E j \in Polls : log[j].ret.kind = "Ready") => Len(delivered) = 1

\* the wrapper returned Ready twice
C10_Witness ==
    /\ Len(log) >= 2
    /\ log[1].ret.kind = "Ready"
    /\ log[2].ret.kind = "Ready"
    /\ op = None
    /\ Len(delivered) = 1

\* the wrapper's fields after poll k
After(k) == IF k < Len(log) THEN log[k + 1].pre ELSE This

\* C11: when the inner future's poll unwinds inside Timed::poll, the
\* wrapper's poll unwinds too (it returns neither Pending nor Ready) and the
\* callback is not invoked in that poll.
C11_InnerUnwindPropagates ==
    \A k \in Polls :
        log[k].inner = Unwound =>
            /\ log[k].ret = Unwound
            /\ log[k].called = 0
            /\ After(k).op = log[k].pre.op

\* the inner future unwinds while the callback is still in its slot, and a
\* later poll finishes
C11_Witness ==
    /\ Len(log) = 3
    /\ log[1].ret = Pending
    /\ log[2].inner = Unwound /\ log[2].pre.op # None
    /\ log[3].ret.kind = "Ready" /\ log[3].called = 1
    /\ events[Len(events)] = "return_ready"

RECURSIVE Replay(_)
\* what a wrapper built by the free constructor timed(fut, f) does on the
\* polls of the history l: its fields, the Timings its callback received and
\* what each poll gave back to the driver
Replay(l) ==
    IF l = <<>>
    THEN [this |-> timed, delivered |-> <<>>, rets |-> <<>>]
    ELSE LET r == Replay(SubSeq(l, 1, Len(l) - 1))
             e == l[Len(l)]
             out == PollBody(r.this, e.start, e.end, e.inner)
         IN IF e.inner = Unwound
            THEN [r EXCEPT !.rets = Append(@, Unwound)]
            ELSE [this |-> out.this,
                  delivered |-> r.delivered \o out.calls,
                  rets |-> Append(r.rets, out.ret)]

\* C12: a wrapper built by fut.timed(f) starts with idle = 0, busy = 0, no
\* last-end timestamp and the callback in its slot, like one built by
\* timed(fut, f), and after every sequence of polls its fields, the Timing
\* delivered and every poll's result are those of a wrapper built by
\* timed(fut, f) and polled the same way.
C12_ExtSameAsFree ==
    /\ log = <<>> =>
          /\ This = timed
          /\ This = [last_poll_end |-> None, timing |-> [idle |-> 0, busy |-> 0],
                     op |-> Some("f")]
    /\ LET free == Replay(log)
       IN /\ This = free.this
          /\ delivered = free.delivered
          /\ \A k \in Polls : log[k].ret = free.rets[k]

\* an extension-built wrapper polled three times, with idle and busy time, finishing
C12_Witness ==
    /\ Len(log) = 3
    /\ log[1].ret = Pending
    /\ log[3].called = 1
    /\ Len(delivered) = 1
    /\ delivered[1].idle > 0 /\ delivered[1].busy > 0

\* C13: the accumulated idle and busy are never negative, both are zero
\* until a poll has returned, and no poll leaves either of them smaller than
\* it found it.
C13_TimingMonotone ==
    /\ timing.idle >= 0 /\ timing.busy >= 0
    /\ Returned(log) = <<>> => timing = [idle |-> 0, busy |-> 0]
    /\ \A k \in Polls :
          /\ log[k].pre.timing.idle >= 0 /\ log[k].pre.timing.busy >= 0
          /\ After(k).timing.idle >= log[k].pre.timing.idle
          /\ After(k).timing.busy >= log[k].pre.timing.busy

\* three returning polls, each of which made idle or busy strictly larger
C13_Witness ==
    /\ Len(log) = 3
    /\ \A k \in Polls : log[k].ret.kind # "Unwound"
    /\ After(1).timing.busy > log[1].pre.timing.busy
    /\ After(2).timing.idle > log[2].pre.timing.idle
    /\ After(3).timing.idle > log[3].pre.timing.idle
    /\ log[1].pre.timing = [idle |-> 0, busy |-> 0]

C16_SlotIffNotInvoked ==
    /\ op # None <=> delivered = <<>>
    /\ Len(delivered) + Len(op) = 1
    /\ log = <<>> => op = Some("f")
    /\ \A k \in Polls :
          /\ log[k].ret.kind # "Ready" => After(k).op = log[k].pre.op
          /\ (\E j \in 1..k : log[j].ret.kind = "Ready") <=> After(k).op = None

\* the slot stayed full over a Pending poll and is empty after the Ready one and later
C16_Witness ==
    /\ Len(log) = 3
    /\ log[1].ret = Pending /\ After(1).op # None
    /\ log[2].ret.kind = "Ready" /\ After(2).op = None
    /\ log[3].ret = Pending /\ op = None
    /\ Len(delivered) = 1

\* the argument of every WarnIf callback invocation is the duration of the
\* poll that made it, and at least the threshold
WarnArgsArePollDurations ==
    \A i \in 1..Len(warned) :
        LET k == warned[i].poll
        IN /\ k \in WPolls
           /\ warned[i].arg = wlog[k].end - wlog[k].start
           /\ warned[i].arg >= threshold

\* C14: whenever the WarnIf callback is invoked its argument is end - start
\* of the poll that triggered it (not a total over earlier polls) and so is
\* >= threshold; no step of the wrapper changes the threshold given at
\* construction.
C14_WarnArgIsThisPoll ==
    /\ []WarnArgsArePollDurations
    /\ [][threshold' = threshold]_vars

\* two polls warned; the second one's argument is its own duration, smaller
\* than the first one's and smaller than the time since the first poll began
C14_Witness ==
    /\ threshold = 1
    /\ Len(wlog) = 2 /\ Len(warned) = 2
    /\ warned[1] = [poll |-> 1, arg |-> 2]
    /\ warned[2] = [poll |-> 2, arg |-> 1]
    /\ wlog[2].end - wlog[1].start > 1

\* the polls of the history l in which the inner future's poll returned
InnerReturned(l) == SelectSeq(l, LAMBDA e : e.inner.kind # "Unwound")

\* C19: Timed empties the callback slot before it runs the callback: when the
\* callback unwinds, the poll unwinds with it, the slot is already empty and
\* no later poll invokes the callback again.
C19_SlotEmptyBeforeCall ==
    /\ Len(delivered) <= 1
    /\ \A k \in Polls :
          (log[k].inner.kind = "Ready" /\ log[k].ret = Unwound) =>
              /\ log[k].called = 1
              /\ log[k].pre.op # None
              /\ After(k).op = None
              /\ \A j \in (k + 1)..Len(log) : log[j].called = 0

\* the callback unwound in the first poll; the inner future is Ready again in
\* the second, which returns Ready without calling anything
C19_Witness ==
    /\ Len(log) = 2
    /\ log[1].inner.kind = "Ready" /\ log[1].ret = Unwound /\ log[1].called = 1
    /\ log[2].inner.kind = "Ready" /\ log[2].ret.kind = "Ready" /\ log[2].called = 0
    /\ op = None
    /\ Len(delivered) = 1

\* C17 as stated: after every poll that returns, idle + busy is the end of
\* the most recent poll that returned minus the start of the wrapper's first poll.
C17_SinceFirstPoll ==
    LET polls == Returned(log)
    IN polls # <<>> =>
          timing.idle + timing.busy = polls[Len(polls)].end - log[1].start

\* C17 (amended): once the inner future's poll has returned in some poll,
\* idle + busy is the end of the most recent poll in which it returned minus
\* the start of the first poll in which it returned: no gap and no double
\* counting from there on, and nothing of a poll that unwound before it.
C17_SinceFirstReturnedPoll ==
    LET polls == InnerReturned(log)
    IN polls # <<>> =>
          timing.idle + timing.busy = polls[Len(polls)].end - polls[1].start

\* the first poll unwinds after a while, then two polls return with a gap between them
C17_Witness ==
    /\ Len(log) = 3
    /\ log[1].inner = Unwound /\ log[1].end > log[1].start
    /\ log[2].ret = Pending /\ log[2].end > log[2].start
    /\ log[3].ret.kind = "Ready" /\ log[3].start > log[2].end
    /\ timing.idle + timing.busy = log[3].end - log[2].start
    /\ timing.idle > 0 /\ timing.busy > 0

\* poll j is the first poll after poll k in which the inner future's poll returned
IsNextAfter(k, j) ==
    /\ j \in (k + 1)..Len(log)
    /\ log[j].inner.kind # "Unwound"
    /\ \A i \in (k + 1)..(j - 1) : log[i].inner = Unwound

IdleGain(j) == After(j).timing.idle - log[j].pre.timing.idle
BusyGain(j) == After(j).timing.busy - log[j].pre.timing.busy
Dur(k) == log[k].end - log[k].start

\* a poll in which the inner future unwinds leaves idle, busy, last_poll_end
\* and the callback slot as it found them
UnwoundPollChangesNothing ==
    \A k \in Polls : log[k].inner = Unwound => After(k) = log[k].pre

\* C18 as stated: a poll in which the inner future unwinds changes nothing,
\* and when the driver polls again the aborted poll's time is counted as
\* idle, not as busy.
C18_AbortedPollIsIdle ==
    /\ UnwoundPollChangesNothing
    /\ \A k \in Polls : \A j \in Polls :
          (log[k].inner = Unwound /\ IsNextAfter(k, j)) =>
              /\ BusyGain(j) = Dur(j)
              /\ IdleGain(j) >= Dur(k)

\* C18 (amended): a poll in which the inner future unwinds changes nothing;
\* when the driver polls again, the aborted poll's time is never counted as
\* busy, and it is counted as idle (the idle gained is the whole time since
\* last_poll_end) if an earlier poll had set last_poll_end, and counted
\* nowhere if none had.
C18_AbortedPollIsIdleAfterAnEnd ==
    /\ UnwoundPollChangesNothing
    /\ \A k \in Polls : \A j \in Polls :
          (log[k].inner = Unwound /\ IsNextAfter(k, j)) =>
              /\ BusyGain(j) = Dur(j)
              /\ IF log[k].pre.last_poll_end # None
                 THEN /\ IdleGain(j) = log[j].start - log[k].pre.last_poll_end[1]
                      /\ IdleGain(j) >= Dur(k)
                 ELSE IdleGain(j) = 0

\* a Pending poll, an aborted poll that took time, and a poll that counts it as idle
C18_Witness ==
    /\ Len(log) = 3
    /\ log[1].ret = Pending
    /\ log[2].inner = Unwound /\ Dur(2) > 0
    /\ After(2) = log[2].pre
    /\ log[3].ret.kind = "Ready"
    /\ IdleGain(3) >= Dur(2)
    /\ delivered[1].idle >= Dur(2)

====
